---- MODULE Spec2Model ----
(***************************************************************************)
(* The video player hook useVideoPlayer and the <video> element it drives. *)
(* Numbers are JavaScript numbers: exact rationals plus NaN and the two    *)
(* infinities, with the arithmetic, comparison and parsing rules of the    *)
(* language (the sign of zero is not tracked).                             *)
(***************************************************************************)
EXTENDS Integers, Sequences, FiniteSets, TLC

(***************************************************************************)
(* JavaScript numbers                                                      *)
(***************************************************************************)
Abs(x) == IF x < 0 THEN -x ELSE x

Sign(x) == IF x < 0 THEN -1 ELSE IF x > 0 THEN 1 ELSE 0

RECURSIVE GCD(_, _)
GCD(a, b) == IF b = 0 THEN a ELSE GCD(b, a % b)

NaN == [k |-> "nan", n |-> 0, d |-> 1]

PosInf == [k |-> "inf", n |-> 1, d |-> 1]

NegInf == [k |-> "inf", n |-> -1, d |-> 1]

\* the finite number n/d (d > 0), in lowest terms
Fin(n, d) ==
    LET g == GCD(Abs(n), d)
    IN  [k |-> "fin", n |-> n \div g, d |-> d \div g]

Int2Num(i) == Fin(i, 1)

IsNaN(a) == a.k = "nan"

IsFinite(a) == a.k = "fin"

InfOf(s) == IF s < 0 THEN NegInf ELSE PosInf

\* a + b
FAdd(a, b) ==
    IF IsNaN(a) \/ IsNaN(b) THEN NaN
    ELSE IF a.k = "inf" /\ b.k = "inf" THEN (IF a.n = b.n THEN a ELSE NaN)
    ELSE IF a.k = "inf" THEN a
    ELSE IF b.k = "inf" THEN b
    ELSE Fin(a.n * b.d + b.n * a.d, a.d * b.d)

\* a * b
FMul(a, b) ==
    IF IsNaN(a) \/ IsNaN(b) THEN NaN
    ELSE IF a.k = "inf" \/ b.k = "inf"
         THEN (IF a.n = 0 \/ b.n = 0 THEN NaN ELSE InfOf(Sign(a.n) * Sign(b.n)))
    ELSE Fin(a.n * b.n, a.d * b.d)

\* a / b
FDiv(a, b) ==
    IF IsNaN(a) \/ IsNaN(b) THEN NaN
    ELSE IF a.k = "inf"
         THEN (IF b.k = "inf" THEN NaN
               ELSE InfOf(a.n * (IF b.n < 0 THEN -1 ELSE 1)))
    ELSE IF b.k = "inf" THEN Int2Num(0)
    ELSE IF b.n = 0 THEN (IF a.n = 0 THEN NaN ELSE InfOf(a.n))
    ELSE Fin(a.n * b.d * Sign(b.n), a.d * Abs(b.n))

\* a < b (false when either is NaN)
FLt(a, b) ==
    /\ ~IsNaN(a)
    /\ ~IsNaN(b)
    /\ IF a.k = "inf" THEN a.n < 0 /\ b # a
       ELSE IF b.k = "inf" THEN b.n > 0
       ELSE a.n * b.d < b.n * a.d

\* a === b
StrictEq(a, b) == ~IsNaN(a) /\ ~IsNaN(b) /\ a = b

\* a <= b
FLeq(a, b) == FLt(a, b) \/ StrictEq(a, b)

\* Math.max(a, b)
MathMax(a, b) ==
    IF IsNaN(a) \/ IsNaN(b) THEN NaN ELSE IF FLt(a, b) THEN b ELSE a

\* Math.min(a, b)
MathMin(a, b) ==
    IF IsNaN(a) \/ IsNaN(b) THEN NaN ELSE IF FLt(b, a) THEN b ELSE a

(***************************************************************************)
(* parseFloat on a string given as its sequence of characters: leading     *)
(* blanks, an optional sign, "Infinity" or decimal digits with an optional *)
(* fraction; anything else is NaN.  Trailing characters are ignored.       *)
(***************************************************************************)
DigitChars == <<"0", "1", "2", "3", "4", "5", "6", "7", "8", "9">>

IsDigit(c) == \E i \in 1..Len(DigitChars) : DigitChars[i] = c

DigitVal(c) == (CHOOSE i \in 1..Len(DigitChars) : DigitChars[i] = c) - 1

RECURSIVE SkipBlanks(_)
SkipBlanks(s) ==
    IF s # <<>> /\ Head(s) = " " THEN SkipBlanks(Tail(s)) ELSE s

\* the longest prefix of s made of digits
RECURSIVE DigitPrefix(_)
DigitPrefix(s) ==
    IF s # <<>> /\ IsDigit(Head(s))
    THEN <<Head(s)>> \o DigitPrefix(Tail(s))
    ELSE <<>>

\* the value of a digit string read as an integer
RECURSIVE DigitsValue(_)
DigitsValue(ds) ==
    IF ds = <<>> THEN 0
    ELSE DigitsValue(SubSeq(ds, 1, Len(ds) - 1)) * 10 + DigitVal(ds[Len(ds)])

RECURSIVE Pow10(_)
Pow10(e) == IF e = 0 THEN 1 ELSE 10 * Pow10(e - 1)

InfinityWord == <<"I", "n", "f", "i", "n", "i", "t", "y">>

StartsWith(s, w) == Len(s) >= Len(w) /\ SubSeq(s, 1, Len(w)) = w

ParseUnsigned(s) ==
    IF StartsWith(s, InfinityWord) THEN PosInf
    ELSE LET ip   == DigitPrefix(s)
             rest == SubSeq(s, Len(ip) + 1, Len(s))
             fp   == IF rest # <<>> /\ Head(rest) = "."
                     THEN DigitPrefix(Tail(rest))
                     ELSE <<>>
         IN  IF ip = <<>> /\ fp = <<>> THEN NaN
             ELSE Fin(DigitsValue(ip) * Pow10(Len(fp)) + DigitsValue(fp),
                      Pow10(Len(fp)))

parseFloat(str) ==
    LET s == SkipBlanks(str)
    IN  IF s = <<>> THEN NaN
        ELSE IF Head(s) = "-" THEN FMul(Int2Num(-1), ParseUnsigned(Tail(s)))
        ELSE IF Head(s) = "+" THEN ParseUnsigned(Tail(s))
        ELSE ParseUnsigned(s)

(***************************************************************************)
(* State                                                                   *)
(***************************************************************************)
VARIABLES
    videoRef,       \* videoRef.current: "null" or "video" (the mounted element)
    video,          \* the <video> element (the one last mounted)
    fullscreenElement, \* whether document.fullscreenElement is set
    fsRequests,     \* fullscreen requests the host has not settled yet
    videoState,     \* the hook's state (latest value in React's update queue)
    closure,        \* videoState.isPlaying / isMuted captured by the callbacks
    onTimeUpdate,   \* whether the optional onTimeUpdate prop was given
    lastCall,       \* the last step: handler run and the element member it used
    threw,          \* whether the last step raised an exception
    notified,       \* the onTimeUpdate calls of the last step (their arguments)
    wasMuted,       \* videoState.isMuted before the last step
    ops,            \* steps taken so far (counted by Spec only)
    images,         \* SlideViewer: images.length (0: no viewer is rendered)
    currentImageIndex, \* SlideViewer: index of the image shown
    zoomLevel,      \* SlideViewer: scale of the image
    rotation,       \* SlideViewer: rotation of the image, in degrees
    isFullscreen,   \* SlideViewer: its fullscreen flag (latest queued value)
    shownFullscreen \* SlideViewer: isFullscreen as of the last render

\* the state of the SlideViewer component
slideVars == <<images, currentImageIndex, zoomLevel, rotation, isFullscreen,
               shownFullscreen>>

vars == <<videoRef, video, fullscreenElement, fsRequests, videoState, closure,
          onTimeUpdate, lastCall, threw, notified, wasMuted, ops, slideVars>>

\* most requests the host holds unsettled at one time
MaxPending == 2

\* steps explored by the specification of the whole component
MaxOps == 5

\* useState's initial value
InitialVideoState ==
    [isPlaying |-> FALSE, volume |-> Int2Num(1), isMuted |-> FALSE,
     progress |-> Int2Num(0), isFullscreen |-> FALSE,
     playbackRate |-> Int2Num(1), currentTime |-> Int2Num(0),
     duration |-> Int2Num(0), buffered |-> Int2Num(0)]

\* a <video> element as created: no metadata, nothing buffered, paused
FreshVideo ==
    [currentTime |-> Int2Num(0), duration |-> NaN, buffered |-> <<>>,
     volume |-> Int2Num(1), muted |-> FALSE, playbackRate |-> Int2Num(1),
     paused |-> TRUE, ended |-> FALSE]

\* the state values the useCallback dependency lists capture
Deps(st) == [isPlaying |-> st.isPlaying, isMuted |-> st.isMuted]

Call(h, c) == [handler |-> h, cmd |-> c, arg |-> <<>>]

\* a call of a handler with its (numeric) argument
CallArg(h, c, a) == [handler |-> h, cmd |-> c, arg |-> <<a>>]

Attached == videoRef # "null"

Init ==
    /\ videoRef = "null"
    /\ video = FreshVideo
    /\ fullscreenElement = FALSE
    /\ fsRequests = <<>>
    /\ videoState = InitialVideoState
    /\ closure = Deps(InitialVideoState)
    /\ onTimeUpdate \in BOOLEAN
    /\ lastCall = Call("none", "none")
    /\ threw = FALSE
    /\ notified = <<>>
    /\ wasMuted = FALSE
    /\ ops = 0
    /\ images = 0
    /\ currentImageIndex = 0
    /\ zoomLevel = Int2Num(1)
    /\ rotation = 0
    /\ isFullscreen = FALSE
    /\ shownFullscreen = FALSE

(***************************************************************************)
(* Inputs                                                                  *)
(***************************************************************************)
\* durations a resource reports once its metadata is loaded
Durations == {Int2Num(0), Fin(1, 10000), Int2Num(20)}

\* playback positions a resource reports
Times == {Int2Num(0), Int2Num(5), Int2Num(15), Int2Num(20)}

PositionsWithin(d) == {t \in Times \cup {d} : FLeq(t, d)}

Range(a, b) == [start |-> Int2Num(a), end |-> Int2Num(b)]

\* buffered time ranges a resource reports
TimeRanges ==
    {<<>>, <<Range(0, 10)>>, <<Range(0, 5), Range(10, 20)>>}

RangesWithin(d) ==
    {b \in TimeRanges \cup {<<[start |-> Int2Num(0), end |-> d]>>} :
        \A i \in 1..Len(b) : FLeq(b[i].end, d)}

\* values of the volume slider's change event (event.target.value)
VolumeInputs ==
    {<<"0">>, <<"0", ".", "5">>, <<"1">>, <<"1", ".", "5">>,
     <<"-", "0", ".", "5">>, <<>>}

\* values of the progress slider's change event
SeekInputs == {<<"0">>, <<"5", "0">>, <<"1", "0", "0">>}

\* arguments of handleSkip
SkipTimes == {Int2Num(-10), Int2Num(10)}

\* arguments of handlePlaybackRateChange
Rates == {Fin(1, 2), Int2Num(2), Int2Num(0), Int2Num(-1), NaN, PosInf}

(***************************************************************************)
(* The <video> element and the host document, as the hook uses them        *)
(***************************************************************************)
\* video.currentTime = t is accepted (a non-finite value is a TypeError)
CurrentTimeAccepts(t) == IsFinite(t)

\* video.volume = v is accepted (NaN: TypeError; outside [0,1]: IndexSizeError)
VolumeAccepts(v) ==
    IsFinite(v) /\ FLeq(Int2Num(0), v) /\ FLeq(v, Int2Num(1))

\* outcomes of video.playbackRate = r: a non-finite rate is a TypeError, and
\* a negative one is accepted or refused (NotSupportedError) by the browser
RateVerdicts(r) ==
    IF ~IsFinite(r) THEN {FALSE}
    ELSE IF FLt(r, Int2Num(0)) THEN {TRUE, FALSE}
    ELSE {TRUE}

\* the element after video.currentTime = t, t finite: it seeks within the
\* resource when the duration is known
Seeked(v, t) ==
    LET pos == IF IsFinite(v.duration)
               THEN MathMin(MathMax(t, Int2Num(0)), v.duration)
               ELSE t
    IN  [v EXCEPT !.currentTime = pos,
                  !.ended = @ /\ StrictEq(pos, v.duration)]

\* the element after a video.play() the browser allows
Played(v) ==
    IF v.ended
    THEN [v EXCEPT !.paused = FALSE, !.ended = FALSE,
                   !.currentTime = Int2Num(0)]
    ELSE [v EXCEPT !.paused = FALSE]

\* the element after video.pause()
Paused(v) == [v EXCEPT !.paused = TRUE]

\* buffered.length ? buffered.end(buffered.length - 1) : 0
BufferedEnd(v) ==
    IF Len(v.buffered) # 0 THEN v.buffered[Len(v.buffered)].end ELSE Int2Num(0)

(***************************************************************************)
(* Mounting, unmounting and rendering                                      *)
(***************************************************************************)
\* what a step that is no handler call leaves behind
Quiet(h) ==
    /\ lastCall' = Call(h, "none")
    /\ threw' = FALSE
    /\ notified' = <<>>

\* the component mounts: a new element, the state at its initial value
Mount ==
    /\ ~Attached
    /\ videoRef' = "video"
    /\ video' = FreshVideo
    /\ videoState' = InitialVideoState
    /\ closure' = Deps(InitialVideoState)
    /\ onTimeUpdate' \in BOOLEAN
    /\ fsRequests' = <<>>
    /\ UNCHANGED fullscreenElement
    /\ Quiet("mount")

\* the component unmounts: React clears the ref
Unmount ==
    /\ Attached
    /\ videoRef' = "null"
    /\ fsRequests' = <<>>
    /\ UNCHANGED <<video, fullscreenElement, videoState, closure, onTimeUpdate>>
    /\ Quiet("unmount")

\* React renders the queued state: the callbacks are created again
Render ==
    /\ Attached
    /\ closure # Deps(videoState)
    /\ closure' = Deps(videoState)
    /\ UNCHANGED <<videoRef, video, fullscreenElement, fsRequests, videoState,
                   onTimeUpdate>>
    /\ Quiet("render")

(***************************************************************************)
(* The handlers of useVideoPlayer                                          *)
(***************************************************************************)
\* a handler called while videoRef.current is null
Skipped(h) ==
    /\ UNCHANGED <<videoRef, video, fullscreenElement, fsRequests, videoState,
                   closure, onTimeUpdate>>
    /\ Quiet(h)

togglePlayPause ==
    IF Attached
    THEN /\ IF closure.isPlaying
            THEN /\ video' = Paused(video)
                 /\ lastCall' = Call("togglePlayPause", "pause")
            ELSE /\ \E allowed \in BOOLEAN :
                        video' = IF allowed THEN Played(video) ELSE video
                 /\ lastCall' = Call("togglePlayPause", "play")
         /\ videoState' = [videoState EXCEPT !.isPlaying = ~@]
         /\ threw' = FALSE
         /\ notified' = <<>>
         /\ UNCHANGED <<videoRef, fullscreenElement, fsRequests, closure,
                        onTimeUpdate>>
    ELSE Skipped("togglePlayPause")

\* handleVolumeChange that stores the volume and leaves isMuted as it was
handleVolumeChange_KeepsMuted(value) ==
    LET newVolume == parseFloat(value)
    IN  IF Attached
        THEN /\ IF VolumeAccepts(newVolume)
                THEN /\ video' = [video EXCEPT !.volume = newVolume]
                     /\ videoState' = [videoState EXCEPT !.volume = newVolume]
                     /\ threw' = FALSE
                ELSE /\ UNCHANGED <<video, videoState>>
                     /\ threw' = TRUE
             /\ lastCall' =
                    CallArg("handleVolumeChange", "volume", newVolume)
             /\ notified' = <<>>
             /\ UNCHANGED <<videoRef, fullscreenElement, fsRequests, closure,
                            onTimeUpdate>>
        ELSE Skipped("handleVolumeChange")

handleVolumeChange(value) ==
    LET newVolume == parseFloat(value)
    IN  IF Attached
        THEN /\ IF VolumeAccepts(newVolume)
                THEN /\ video' = [video EXCEPT !.volume = newVolume]
                     /\ videoState' =
                            [videoState EXCEPT
                                !.volume = newVolume,
                                !.isMuted = StrictEq(newVolume, Int2Num(0))]
                     /\ threw' = FALSE
                ELSE /\ UNCHANGED <<video, videoState>>
                     /\ threw' = TRUE
             /\ lastCall' =
                    CallArg("handleVolumeChange", "volume", newVolume)
             /\ notified' = <<>>
             /\ UNCHANGED <<videoRef, fullscreenElement, fsRequests, closure,
                            onTimeUpdate>>
        ELSE Skipped("handleVolumeChange")

toggleMute ==
    IF Attached
    THEN LET muted == ~closure.isMuted
         IN  /\ video' = [video EXCEPT !.muted = muted]
             /\ videoState' = [videoState EXCEPT !.isMuted = muted]
             /\ lastCall' = Call("toggleMute", "muted")
             /\ threw' = FALSE
             /\ notified' = <<>>
             /\ UNCHANGED <<videoRef, fullscreenElement, fsRequests, closure,
                            onTimeUpdate>>
    ELSE Skipped("toggleMute")

\* handleTimeUpdate without its check of videoRef.current: it reads the element
\* it last saw
handleTimeUpdate_NoRefCheck ==
    /\ videoState' =
            [videoState EXCEPT
                !.currentTime = video.currentTime,
                !.duration = video.duration,
                !.progress =
                    FMul(FDiv(video.currentTime, video.duration), Int2Num(100)),
                !.buffered =
                    FMul(FDiv(BufferedEnd(video), video.duration),
                         Int2Num(100))]
    /\ notified' = IF onTimeUpdate THEN <<video.currentTime>> ELSE <<>>
    /\ lastCall' = Call("handleTimeUpdate", "none")
    /\ threw' = FALSE
    /\ UNCHANGED <<videoRef, video, fullscreenElement, fsRequests, closure,
                   onTimeUpdate>>

\* handleTimeUpdate handing its subscriber the percentage, not the raw time
handleTimeUpdate_NotifiesProgress ==
    IF Attached
    THEN LET currentTime == video.currentTime
             duration    == video.duration
             buffered    == BufferedEnd(video)
         IN  /\ videoState' =
                    [videoState EXCEPT
                        !.currentTime = currentTime,
                        !.duration = duration,
                        !.progress =
                            FMul(FDiv(currentTime, duration), Int2Num(100)),
                        !.buffered =
                            FMul(FDiv(buffered, duration), Int2Num(100))]
             /\ notified' = IF onTimeUpdate
                            THEN <<FMul(FDiv(currentTime, duration),
                                        Int2Num(100))>>
                            ELSE <<>>
             /\ lastCall' = Call("handleTimeUpdate", "none")
             /\ threw' = FALSE
             /\ UNCHANGED <<videoRef, video, fullscreenElement, fsRequests,
                            closure, onTimeUpdate>>
    ELSE Skipped("handleTimeUpdate")

handleTimeUpdate ==
    IF Attached
    THEN LET currentTime == video.currentTime
             duration    == video.duration
             buffered    == BufferedEnd(video)
         IN  /\ videoState' =
                    [videoState EXCEPT
                        !.currentTime = currentTime,
                        !.duration = duration,
                        !.progress =
                            FMul(FDiv(currentTime, duration), Int2Num(100)),
                        !.buffered =
                            FMul(FDiv(buffered, duration), Int2Num(100))]
             /\ notified' = IF onTimeUpdate THEN <<currentTime>> ELSE <<>>
             /\ lastCall' = Call("handleTimeUpdate", "none")
             /\ threw' = FALSE
             /\ UNCHANGED <<videoRef, video, fullscreenElement, fsRequests,
                            closure, onTimeUpdate>>
    ELSE Skipped("handleTimeUpdate")

\* handleSeek taking its value as a fraction, not a percentage
handleSeek_NoPercent(value) ==
    IF Attached
    THEN LET newTime == FMul(parseFloat(value), video.duration)
         IN  /\ IF CurrentTimeAccepts(newTime)
                THEN video' = Seeked(video, newTime) /\ threw' = FALSE
                ELSE UNCHANGED video /\ threw' = TRUE
             /\ lastCall' = CallArg("handleSeek", "currentTime",
                                  parseFloat(value))
             /\ notified' = <<>>
             /\ UNCHANGED <<videoRef, fullscreenElement, fsRequests,
                            videoState, closure, onTimeUpdate>>
    ELSE Skipped("handleSeek")

handleSeek(value) ==
    IF Attached
    THEN LET newTime == FMul(FDiv(parseFloat(value), Int2Num(100)),
                             video.duration)
         IN  /\ IF CurrentTimeAccepts(newTime)
                THEN video' = Seeked(video, newTime) /\ threw' = FALSE
                ELSE UNCHANGED video /\ threw' = TRUE
             /\ lastCall' = CallArg("handleSeek", "currentTime",
                                  parseFloat(value))
             /\ notified' = <<>>
             /\ UNCHANGED <<videoRef, fullscreenElement, fsRequests,
                            videoState, closure, onTimeUpdate>>
    ELSE Skipped("handleSeek")

toggleFullscreen ==
    IF Attached
    THEN /\ Len(fsRequests) < MaxPending
         /\ IF ~fullscreenElement
            THEN /\ fsRequests' = Append(fsRequests, "enter")
                 /\ videoState' = [videoState EXCEPT !.isFullscreen = TRUE]
                 /\ lastCall' = Call("toggleFullscreen", "requestFullscreen")
            ELSE /\ fsRequests' = Append(fsRequests, "exit")
                 /\ videoState' = [videoState EXCEPT !.isFullscreen = FALSE]
                 /\ lastCall' = Call("toggleFullscreen", "exitFullscreen")
         /\ threw' = FALSE
         /\ notified' = <<>>
         /\ UNCHANGED <<videoRef, video, fullscreenElement, closure,
                        onTimeUpdate>>
    ELSE Skipped("toggleFullscreen")

handleSkip(time) ==
    IF Attached
    THEN LET target == MathMin(MathMax(FAdd(video.currentTime, time),
                                       Int2Num(0)),
                               video.duration)
         IN  /\ IF CurrentTimeAccepts(target)
                THEN video' = Seeked(video, target) /\ threw' = FALSE
                ELSE UNCHANGED video /\ threw' = TRUE
             /\ lastCall' = CallArg("handleSkip", "currentTime", time)
             /\ notified' = <<>>
             /\ UNCHANGED <<videoRef, fullscreenElement, fsRequests,
                            videoState, closure, onTimeUpdate>>
    ELSE Skipped("handleSkip")

handlePlaybackRateChange(rate) ==
    IF Attached
    THEN /\ \E accepted \in RateVerdicts(rate) :
                IF accepted
                THEN /\ video' = [video EXCEPT !.playbackRate = rate]
                     /\ videoState' = [videoState EXCEPT !.playbackRate = rate]
                     /\ threw' = FALSE
                ELSE /\ UNCHANGED <<video, videoState>>
                     /\ threw' = TRUE
         /\ lastCall' =
                CallArg("handlePlaybackRateChange", "playbackRate", rate)
         /\ notified' = <<>>
         /\ UNCHANGED <<videoRef, fullscreenElement, fsRequests, closure,
                        onTimeUpdate>>
    ELSE Skipped("handlePlaybackRateChange")

\* restartVideo without its check of videoRef.current
restartVideo_NoRefCheck ==
    /\ video' = Seeked(video, Int2Num(0))
    /\ videoState' = [videoState EXCEPT !.progress = Int2Num(0)]
    /\ lastCall' = Call("restartVideo", "currentTime")
    /\ threw' = FALSE
    /\ notified' = <<>>
    /\ UNCHANGED <<videoRef, fullscreenElement, fsRequests, closure,
                   onTimeUpdate>>

restartVideo ==
    IF Attached
    THEN /\ video' = Seeked(video, Int2Num(0))
         /\ videoState' = [videoState EXCEPT !.progress = Int2Num(0)]
         /\ lastCall' = Call("restartVideo", "currentTime")
         /\ threw' = FALSE
         /\ notified' = <<>>
         /\ UNCHANGED <<videoRef, fullscreenElement, fsRequests, closure,
                        onTimeUpdate>>
    ELSE Skipped("restartVideo")

(***************************************************************************)
(* What the resource and the host do on their own.  The component listens  *)
(* to timeupdate only (handleTimeUpdate): none of these reaches the hook.  *)
(***************************************************************************)
ResourceStep ==
    /\ Attached
    /\ UNCHANGED <<videoRef, fullscreenElement, fsRequests, videoState,
                   closure, onTimeUpdate>>
    /\ Quiet("resource")

\* the metadata arrives: the duration becomes known
LoadedMetadata(d) ==
    /\ IsNaN(video.duration)
    /\ video' = [video EXCEPT !.duration = d]
    /\ ResourceStep

\* the playback position moves
PositionChanges(t) ==
    /\ IsFinite(video.duration)
    /\ t \in PositionsWithin(video.duration)
    /\ t # video.currentTime
    /\ video' = [video EXCEPT !.currentTime = t, !.ended = FALSE]
    /\ ResourceStep

\* more (or less) of the resource is buffered
BufferChanges(b) ==
    /\ IsFinite(video.duration)
    /\ b \in RangesWithin(video.duration)
    /\ b # video.buffered
    /\ video' = [video EXCEPT !.buffered = b]
    /\ ResourceStep

\* playback is paused from outside the hook (pause event)
ResourcePauses ==
    /\ ~video.paused
    /\ video' = Paused(video)
    /\ ResourceStep

\* playback reaches the end: the element pauses itself (pause, ended events)
ResourceEnds ==
    /\ ~video.paused
    /\ IsFinite(video.duration)
    /\ video' = [video EXCEPT !.currentTime = video.duration,
                              !.paused = TRUE, !.ended = TRUE]
    /\ ResourceStep

HostStep ==
    /\ UNCHANGED <<videoRef, video, videoState, closure, onTimeUpdate>>
    /\ Quiet("host")

\* the host grants the oldest fullscreen request (fullscreenchange event)
FullscreenGranted ==
    /\ fsRequests # <<>>
    /\ fullscreenElement' = (Head(fsRequests) = "enter")
    /\ fsRequests' = Tail(fsRequests)
    /\ HostStep

\* the host rejects it: the promise rejects into .catch(console.error)
FullscreenRejected ==
    /\ fsRequests # <<>>
    /\ fsRequests' = Tail(fsRequests)
    /\ UNCHANGED fullscreenElement
    /\ HostStep

\* fullscreen is entered or left outside the hook (Escape, another component)
FullscreenChanges ==
    /\ fullscreenElement' = ~fullscreenElement
    /\ UNCHANGED fsRequests
    /\ HostStep

(***************************************************************************)
(* The SlideViewer component.  Its state setters take functional updaters, *)
(* except setIsFullscreen(!isFullscreen), which reads the value of the     *)
(* last render.  The images prop does not change while it is rendered.     *)
(***************************************************************************)
\* most images a viewer is given
MaxImages == 3

\* JavaScript's a % n on integers, n > 0: the result has the sign of a
JsRem(a, n) == IF a >= 0 THEN a % n ELSE -((-a) % n)

Viewing == images # 0

\* a step of the viewer: the video player is not involved
ViewerStep ==
    /\ Viewing
    /\ UNCHANGED <<videoRef, video, videoState, closure, onTimeUpdate>>
    /\ threw' = FALSE
    /\ notified' = <<>>

\* the viewer is rendered with n images; the mount effect's resetView()
\* finds zoom and rotation at their initial values
SlideMount(n) ==
    /\ ~Viewing
    /\ images' = n
    /\ currentImageIndex' = 0
    /\ zoomLevel' = Int2Num(1)
    /\ rotation' = 0
    /\ isFullscreen' = FALSE
    /\ shownFullscreen' = FALSE
    /\ UNCHANGED <<videoRef, video, videoState, closure, onTimeUpdate,
                   fullscreenElement, fsRequests>>
    /\ Quiet("SlideViewer")

\* the viewer is removed: its state is dropped
SlideUnmount ==
    /\ ViewerStep
    /\ images' = 0
    /\ currentImageIndex' = 0
    /\ zoomLevel' = Int2Num(1)
    /\ rotation' = 0
    /\ isFullscreen' = FALSE
    /\ shownFullscreen' = FALSE
    /\ UNCHANGED <<fullscreenElement, fsRequests>>
    /\ lastCall' = Call("unmount", "none")

\* React renders a changed isFullscreen; the effect depending on it runs
\* and calls resetView() when the flag is false
SlideRender ==
    /\ ViewerStep
    /\ shownFullscreen # isFullscreen
    /\ shownFullscreen' = isFullscreen
    /\ IF ~isFullscreen
       THEN zoomLevel' = Int2Num(1) /\ rotation' = 0
       ELSE UNCHANGED <<zoomLevel, rotation>>
    /\ UNCHANGED <<images, currentImageIndex, isFullscreen, fullscreenElement,
                   fsRequests>>
    /\ lastCall' = Call("render", IF ~isFullscreen THEN "resetView" ELSE "none")

\* changeImage without images.length added before the remainder
changeImage_NoWrap(direction) ==
    /\ ViewerStep
    /\ currentImageIndex' = JsRem(currentImageIndex + direction, images)
    /\ UNCHANGED <<images, zoomLevel, rotation, isFullscreen, shownFullscreen,
                   fullscreenElement, fsRequests>>
    /\ lastCall' = CallArg("changeImage", "none", Int2Num(direction))

changeImage(direction) ==
    /\ ViewerStep
    /\ currentImageIndex' =
            JsRem(currentImageIndex + direction + images, images)
    /\ UNCHANGED <<images, zoomLevel, rotation, isFullscreen, shownFullscreen,
                   fullscreenElement, fsRequests>>
    /\ lastCall' = CallArg("changeImage", "none", Int2Num(direction))

\* a click on the indicator of image index
setCurrentImageIndex(index) ==
    /\ ViewerStep
    /\ index \in 0 .. images - 1
    /\ currentImageIndex' = index
    /\ UNCHANGED <<images, zoomLevel, rotation, isFullscreen, shownFullscreen,
                   fullscreenElement, fsRequests>>
    /\ lastCall' = Call("setCurrentImageIndex", "none")

\* a step that sets the zoom level and nothing else
Zoomed(h, z) ==
    /\ ViewerStep
    /\ zoomLevel' = z
    /\ UNCHANGED <<images, currentImageIndex, rotation, isFullscreen,
                   shownFullscreen, fullscreenElement, fsRequests>>
    /\ lastCall' = Call(h, "none")

handleZoomIn ==
    Zoomed("handleZoomIn", MathMin(FAdd(zoomLevel, Fin(1, 2)), Int2Num(4)))

handleZoomOut ==
    Zoomed("handleZoomOut", MathMax(FAdd(zoomLevel, Fin(-1, 2)), Int2Num(1)))

\* a step that sets the rotation and nothing else
Rotated(h, r) ==
    /\ ViewerStep
    /\ rotation' = r
    /\ UNCHANGED <<images, currentImageIndex, zoomLevel, isFullscreen,
                   shownFullscreen, fullscreenElement, fsRequests>>
    /\ lastCall' = Call(h, "none")

\* rotateLeft without the full turn added before the remainder
rotateLeft_NoWrap == Rotated("rotateLeft", JsRem(rotation - 90, 360))

rotateLeft == Rotated("rotateLeft", JsRem(rotation - 90 + 360, 360))

rotateRight == Rotated("rotateRight", JsRem(rotation + 90, 360))

resetView ==
    /\ ViewerStep
    /\ zoomLevel' = Int2Num(1)
    /\ rotation' = 0
    /\ UNCHANGED <<images, currentImageIndex, isFullscreen, shownFullscreen,
                   fullscreenElement, fsRequests>>
    /\ lastCall' = Call("resetView", "none")

\* toggleFullscreen of the SlideViewer: the request goes to the document,
\* the flag becomes the opposite of the value the last render showed
SlideViewer_toggleFullscreen ==
    /\ ViewerStep
    /\ Len(fsRequests) < MaxPending
    /\ IF ~fullscreenElement
       THEN /\ fsRequests' = Append(fsRequests, "enter")
            /\ lastCall' = Call("SlideViewer.toggleFullscreen",
                                "requestFullscreen")
       ELSE /\ fsRequests' = Append(fsRequests, "exit")
            /\ lastCall' = Call("SlideViewer.toggleFullscreen",
                                "exitFullscreen")
    /\ isFullscreen' = ~shownFullscreen
    /\ UNCHANGED <<images, currentImageIndex, zoomLevel, rotation,
                   shownFullscreen, fullscreenElement>>

\* keys a user presses; "a" stands for every key without a case
Keys == {"ArrowLeft", "ArrowRight", "+", "-", "r", "[", "]", "a"}

handleKeyDown(key) ==
    CASE key = "ArrowLeft"  -> changeImage(-1)
      [] key = "ArrowRight" -> changeImage(1)
      [] key = "+"          -> handleZoomIn
      [] key = "-"          -> handleZoomOut
      [] key = "r"          -> resetView
      [] key = "["          -> rotateLeft
      [] key = "]"          -> rotateRight
      [] OTHER              -> /\ UNCHANGED slideVars
                               /\ UNCHANGED <<fullscreenElement, fsRequests>>
                               /\ ViewerStep
                               /\ lastCall' = Call("handleKeyDown", "none")

(***************************************************************************)
(* Specifications                                                          *)
(***************************************************************************)
AllRanges == UNION {RangesWithin(d) : d \in Durations}

\* a step the specification of the whole component counts
Counted ==
    /\ ops < MaxOps
    /\ ops' = ops + 1
    /\ wasMuted' = videoState.isMuted
    /\ UNCHANGED slideVars

\* a step of a specification explored to any depth
Free ==
    /\ UNCHANGED ops
    /\ wasMuted' = videoState.isMuted
    /\ UNCHANGED slideVars

\* the whole component, MaxOps steps deep
Next ==
    \/ Counted /\ Mount
    \/ Counted /\ Unmount
    \/ Counted /\ Render
    \/ Counted /\ handleTimeUpdate
    \/ \E value \in SeekInputs : Counted /\ handleSeek(value)
    \/ \E time \in SkipTimes : Counted /\ handleSkip(time)
    \/ Counted /\ restartVideo
    \/ Counted /\ togglePlayPause
    \/ \E value \in VolumeInputs : Counted /\ handleVolumeChange(value)
    \/ Counted /\ toggleMute
    \/ \E rate \in Rates : Counted /\ handlePlaybackRateChange(rate)
    \/ Counted /\ toggleFullscreen
    \/ \E d \in Durations : Counted /\ LoadedMetadata(d)
    \/ \E t \in Times \cup Durations : Counted /\ PositionChanges(t)
    \/ \E b \in AllRanges : Counted /\ BufferChanges(b)
    \/ Counted /\ ResourcePauses
    \/ Counted /\ ResourceEnds
    \/ Counted /\ FullscreenGranted
    \/ Counted /\ FullscreenRejected
    \/ Counted /\ FullscreenChanges

Spec == Init /\ [][Next]_vars

\* position, duration and buffering, to any depth
NextTime ==
    \/ Free /\ Mount
    \/ Free /\ Unmount
    \/ Free /\ handleTimeUpdate
    \/ \E value \in SeekInputs : Free /\ handleSeek(value)
    \/ \E time \in SkipTimes : Free /\ handleSkip(time)
    \/ Free /\ restartVideo
    \/ \E d \in Durations : Free /\ LoadedMetadata(d)
    \/ \E t \in Times \cup Durations : Free /\ PositionChanges(t)
    \/ \E b \in AllRanges : Free /\ BufferChanges(b)

SpecTime == Init /\ [][NextTime]_vars

\* volume, mute and rate, to any depth
NextSound ==
    \/ Free /\ Mount
    \/ Free /\ Unmount
    \/ Free /\ Render
    \/ \E value \in VolumeInputs : Free /\ handleVolumeChange(value)
    \/ Free /\ toggleMute
    \/ \E rate \in Rates : Free /\ handlePlaybackRateChange(rate)

SpecSound == Init /\ [][NextSound]_vars

\* play/pause and fullscreen, to any depth.  React renders a changed state
\* and the host settles a fullscreen request sooner or later: both are
\* weakly fair.  Nothing obliges the user or the resource to act.
NextAsync ==
    \/ Free /\ Mount
    \/ Free /\ Unmount
    \/ Free /\ Render
    \/ Free /\ togglePlayPause
    \/ Free /\ toggleFullscreen
    \/ \E d \in Durations : Free /\ LoadedMetadata(d)
    \/ Free /\ ResourcePauses
    \/ Free /\ ResourceEnds
    \/ Free /\ FullscreenGranted
    \/ Free /\ FullscreenRejected
    \/ Free /\ FullscreenChanges

SpecAsync ==
    /\ Init
    /\ [][NextAsync]_vars
    /\ WF_vars(Render /\ Free)
    /\ WF_vars((FullscreenGranted \/ FullscreenRejected) /\ Free)

\* a step of the viewer's specification
Viewed == UNCHANGED ops /\ wasMuted' = videoState.isMuted

\* the SlideViewer and the document's fullscreen state, to any depth
NextSlides ==
    \/ \E n \in 1 .. MaxImages : Viewed /\ SlideMount(n)
    \/ Viewed /\ SlideUnmount
    \/ Viewed /\ SlideRender
    \/ \E direction \in {-1, 1} : Viewed /\ changeImage(direction)
    \/ \E index \in 0 .. MaxImages - 1 : Viewed /\ setCurrentImageIndex(index)
    \/ Viewed /\ handleZoomIn
    \/ Viewed /\ handleZoomOut
    \/ Viewed /\ rotateLeft
    \/ Viewed /\ rotateRight
    \/ Viewed /\ resetView
    \/ Viewed /\ SlideViewer_toggleFullscreen
    \/ \E key \in Keys : Viewed /\ handleKeyDown(key)
    \/ Free /\ FullscreenGranted
    \/ Free /\ FullscreenRejected
    \/ Free /\ FullscreenChanges

SpecSlides == Init /\ [][NextSlides]_vars

(***************************************************************************)
(* Properties                                                              *)
(***************************************************************************)
Zero == Int2Num(0)

HandlerNames ==
    {"togglePlayPause", "handleVolumeChange", "toggleMute", "handleTimeUpdate",
     "handleSeek", "toggleFullscreen", "handleSkip",
     "handlePlaybackRateChange", "restartVideo"}

\* C1: after a time update on a mounted player whose resource has an unknown
\* (NaN) or zero duration, progress and buffered are both exactly 0.
C1_PercentZeroWithoutDuration ==
    (/\ Attached
     /\ lastCall.handler = "handleTimeUpdate"
     /\ (IsNaN(video.duration) \/ StrictEq(video.duration, Zero)))
    => (videoState.progress = Zero /\ videoState.buffered = Zero)

\* C2: whenever isPlaying and the element's actual playing state (not paused)
\* differ on a mounted player, they later agree again.
C2_IsPlayingReconciled ==
    (Attached /\ videoState.isPlaying # ~video.paused)
        ~> (~Attached \/ videoState.isPlaying = ~video.paused)

\* C3: a togglePlayPause called right after another one (nothing in between,
\* not even a render) issues the opposite command, and isPlaying then agrees
\* with the command just issued.
C3_SecondToggleOpposite ==
    [][(Attached /\ lastCall.handler = "togglePlayPause" /\ togglePlayPause)
        => (/\ lastCall'.cmd # lastCall.cmd
            /\ videoState'.isPlaying = (lastCall'.cmd = "play"))]_vars

\* C4: a time update delivered while the ref is cleared changes no field of
\* the state, calls no subscriber and raises nothing.
C4_StaleTimeUpdateIsNoOp ==
    [][(~Attached /\ lastCall'.handler = "handleTimeUpdate")
        => (videoState' = videoState /\ notified' = <<>> /\ ~threw')]_vars

\* C4 witness: the player was unmounted with a subscriber and a known duration
\* in its state, and a time update arrived afterwards.
C4_Witness ==
    /\ ~Attached
    /\ lastCall.handler = "handleTimeUpdate"
    /\ onTimeUpdate
    /\ videoState.duration = Int2Num(20)
    /\ video.currentTime # videoState.currentTime

\* C5: with no element attached every handler is a no-op: the state, the
\* element and the host are untouched, no member of the element is used and
\* nothing is raised.
C5_UnattachedIsNoOp ==
    [][(~Attached /\ lastCall'.handler \in HandlerNames)
        => (/\ UNCHANGED <<video, fullscreenElement, fsRequests, videoState>>
            /\ lastCall'.cmd = "none"
            /\ notified' = <<>>
            /\ ~threw')]_vars

\* C5 witness: a handler was called after the player, left playing, was
\* unmounted.
C5_Witness ==
    /\ ~Attached
    /\ lastCall.handler = "restartVideo"
    /\ videoState.isPlaying
    /\ ~video.paused

\* C6: handleSeek on a mounted player whose duration is NaN does nothing: it
\* assigns nothing to currentTime, raises nothing and leaves element and state
\* as they were.
C6_SeekWithoutDurationIsNoOp ==
    [][(/\ Attached
        /\ IsNaN(video.duration)
        /\ \E value \in SeekInputs : handleSeek(value))
        => (/\ video' = video
            /\ videoState' = videoState
            /\ lastCall'.cmd = "none"
            /\ ~threw')]_vars

\* clamp(currentTime + time, 0, duration), the upper bound only when known
SkipTarget(v, time) ==
    LET low == MathMax(FAdd(v.currentTime, time), Zero)
    IN  IF IsNaN(v.duration) THEN low ELSE MathMin(low, v.duration)

\* C7: handleSkip(time) on a mounted player sets currentTime to
\* clamp(currentTime + time, 0, duration), or to max(currentTime + time, 0)
\* when the duration is unknown, and never fails on a NaN target.
C7_SkipClamps ==
    [][\A time \in SkipTimes :
        (Attached /\ handleSkip(time))
            => (~threw' /\ video'.currentTime = SkipTarget(video, time))]_vars

\* C8: handleVolumeChange never fails and never leaves a volume outside
\* [0,1] in the element or the state, whatever the input.
C8_VolumeTotalAndInRange ==
    [][(Attached /\ \E value \in VolumeInputs : handleVolumeChange(value))
        => (/\ ~threw'
            /\ VolumeAccepts(video'.volume)
            /\ VolumeAccepts(videoState'.volume))]_vars

\* C9: the playback rate of the state and of the element is positive (and
\* finite) in every reachable state.
C9_RatePositive ==
    /\ IsFinite(videoState.playbackRate)
    /\ FLt(Zero, videoState.playbackRate)
    /\ IsFinite(video.playbackRate)
    /\ FLt(Zero, video.playbackRate)

\* C10: whenever isFullscreen and the host's fullscreen status differ on a
\* mounted player, they later agree again.
C10_IsFullscreenReconciled ==
    (Attached /\ videoState.isFullscreen # fullscreenElement)
        ~> (~Attached \/ videoState.isFullscreen = fullscreenElement)

\* C11: restartVideo on a mounted player leaves currentTime 0 and progress 0
\* in the state, sets the element's currentTime to 0 and keeps isPlaying.
C11_RestartZeroes ==
    [][(Attached /\ restartVideo)
        => (/\ videoState'.currentTime = Zero
            /\ videoState'.progress = Zero
            /\ video'.currentTime = Zero
            /\ videoState'.isPlaying = videoState.isPlaying)]_vars

\* C12: a handleVolumeChange with a value in [0,1] on a mounted player
\* stores that volume in the element and in the state and sets isMuted to
\* (value = 0), whatever isMuted was.
C12_VolumeSetsMuted ==
    [][\A value \in VolumeInputs :
        (/\ Attached
         /\ VolumeAccepts(parseFloat(value))
         /\ handleVolumeChange(value))
            => (/\ videoState'.isMuted = (parseFloat(value) = Zero)
                /\ video'.volume = parseFloat(value)
                /\ videoState'.volume = parseFloat(value))]_vars

\* C12 witness: the volume was set to 0.5 while isMuted was true, and
\* isMuted is now false.
C12_Witness ==
    /\ Attached
    /\ lastCall.handler = "handleVolumeChange"
    /\ lastCall.arg = <<Fin(1, 2)>>
    /\ wasMuted
    /\ ~videoState.isMuted
    /\ videoState.volume = Fin(1, 2)

\* C13: a toggleMute called right after another toggleMute on a mounted
\* player brings isMuted back to what it was before the first one, and
\* changes the volume neither in the state nor in the element.
C13_DoubleToggleMuteRestores ==
    [][(Attached /\ lastCall.handler = "toggleMute" /\ toggleMute)
        => (/\ videoState'.isMuted = wasMuted
            /\ videoState'.volume = videoState.volume
            /\ video'.volume = video.volume)]_vars

Hundred == Int2Num(100)

InPercentRange(x) == IsFinite(x) /\ FLeq(Zero, x) /\ FLeq(x, Hundred)

\* C14: progress and buffered are within [0,100] in every reachable state.
C14_PercentsInRange ==
    InPercentRange(videoState.progress) /\ InPercentRange(videoState.buffered)

\* the percentage a snapshot's currentTime and duration stand for: 0 without a
\* duration, else 100 * currentTime / duration clamped to [0,100]
DerivedPercent(t, d) ==
    IF IsNaN(d) \/ StrictEq(d, Zero) THEN Zero
    ELSE MathMin(MathMax(FMul(FDiv(t, d), Hundred), Zero), Hundred)

\* C15: in every reachable state the stored progress is the percentage
\* derived from the currentTime and duration stored beside it.
C15_ProgressDerivedFromSnapshot ==
    videoState.progress =
        DerivedPercent(videoState.currentTime, videoState.duration)

SeekPercents == {Int2Num(0), Int2Num(50), Int2Num(100)}

\* C16: with a known positive duration, a time update that directly follows
\* handleSeek(percent), percent in {0, 50, 100}, stores progress = percent.
C16_SeekThenTimeUpdate ==
    [][(/\ Attached
        /\ lastCall.handler = "handleSeek"
        /\ lastCall.arg \in {<<p>> : p \in SeekPercents}
        /\ ~threw
        /\ IsFinite(video.duration)
        /\ FLt(Zero, video.duration)
        /\ handleTimeUpdate)
            => videoState'.progress = lastCall.arg[1]]_vars

\* a time update has stored 50 for the position only handleSeek("50") gives
C16_Witness ==
    /\ Attached
    /\ lastCall.handler = "handleTimeUpdate"
    /\ video.duration = Fin(1, 10000)
    /\ video.currentTime = Fin(1, 20000)
    /\ videoState.currentTime = Fin(1, 20000)
    /\ videoState.progress = Int2Num(50)

\* C17: a time update delivered while attached calls the subscriber, when
\* there is one, exactly once with the element's currentTime as read in that
\* event; no other step calls it.
C17_SubscriberGetsRawTime ==
    [][/\ (Attached /\ handleTimeUpdate)
            => notified' = IF onTimeUpdate THEN <<video.currentTime>>
                           ELSE <<>>
       /\ lastCall'.handler # "handleTimeUpdate" => notified' = <<>>]_vars

\* the subscriber was handed 5 seconds, a quarter of the resource
C17_Witness ==
    /\ Attached
    /\ onTimeUpdate
    /\ lastCall.handler = "handleTimeUpdate"
    /\ video.duration = Int2Num(20)
    /\ video.currentTime = Int2Num(5)
    /\ notified = <<Int2Num(5)>>

\* C18: while attached, the state's isMuted equals the element's own muted
\* flag, whatever handleVolumeChange and toggleMute calls came before.
C18_IsMutedMatchesElement ==
    Attached => videoState.isMuted = video.muted

\* C19: while a viewer with a non-empty images list is rendered,
\* currentImageIndex is an index of the list; next from the last image gives
\* index 0 and previous from index 0 gives the last index.
C19_IndexValidAndWraps ==
    /\ [](Viewing => currentImageIndex \in 0 .. images - 1)
    /\ [][/\ (currentImageIndex = images - 1 /\ changeImage(1))
                => currentImageIndex' = 0
          /\ (currentImageIndex = 0 /\ changeImage(-1))
                => currentImageIndex' = images - 1
          /\ (currentImageIndex = images - 1 /\ handleKeyDown("ArrowRight"))
                => currentImageIndex' = 0
          /\ (currentImageIndex = 0 /\ handleKeyDown("ArrowLeft"))
                => currentImageIndex' = images - 1]_vars

\* previous from index 0 of three images has led to the last image
C19_Witness ==
    /\ images = 3
    /\ lastCall = CallArg("changeImage", "none", Int2Num(-1))
    /\ currentImageIndex = 2

ZoomLevels == {Fin(h, 2) : h \in 2 .. 8}

\* C20: zoomLevel is one of 1, 1.5, ..., 4 and rotation one of 0, 90, 180,
\* 270 in every reachable state, and a render in which the viewer's
\* isFullscreen becomes false leaves zoomLevel 1 and rotation 0.
C20_ZoomRotationBounded ==
    /\ [](zoomLevel \in ZoomLevels /\ rotation \in {0, 90, 180, 270})
    /\ [][(shownFullscreen /\ ~shownFullscreen')
            => (zoomLevel' = Int2Num(1) /\ rotation' = 0)]_vars

\* rotate-left from 0 degrees has given 270 on an image zoomed to the cap
C20_Witness ==
    /\ Viewing
    /\ lastCall.handler = "rotateLeft"
    /\ rotation = 270
    /\ zoomLevel = Int2Num(4)
    /\ shownFullscreen

====
